---- MODULE Spec2Model ----
(***************************************************************************)
(* CDN cache invalidation and warming of tanam (src/src/cache.ts).         *)
(*                                                                         *)
(* Strings are sequences of one-character strings, so that endsWith,       *)
(* lastIndexOf and substr are computed as the code computes them.          *)
(* The state is the host registry kept in the realtime database, the       *)
(* register calls in flight, and for every event the position of its       *)
(* handler and the purgeCache/heatCache invocations it has started, each   *)
(* with the registry snapshot it read and the HTTPS requests it issued.    *)
(***************************************************************************)
EXTENDS Integers, Sequences, FiniteSets, TLC

\* ------------------------------------------------------------------ bounds

\* Largest value of the store's server clock.
MaxClock == 1

\* ----------------------------------------------------------------- strings

Min(a, b) == IF a < b THEN a ELSE b

\* String.prototype.endsWith
EndsWith(s, suffix) ==
    /\ Len(s) >= Len(suffix)
    /\ SubSeq(s, Len(s) - Len(suffix) + 1, Len(s)) = suffix

\* String.prototype.lastIndexOf: the largest 0-based index at which needle
\* occurs in s, or -1.
LastIndexOf(s, needle) ==
    LET hits == {i \in 0..(Len(s) - Len(needle)) :
                    SubSeq(s, i + 1, i + Len(needle)) = needle}
    IN  IF hits = {} THEN -1
        ELSE CHOOSE i \in hits : \A j \in hits : j <= i

\* String.prototype.substr(start, length) for start = 0: a length below 0
\* counts as 0, a length beyond the end stops at the end.
Substr(s, start, length) ==
    IF length <= 0 THEN <<>>
    ELSE SubSeq(s, start + 1, Min(start + length, Len(s)))

\* The value of a missing list element, and of an absent path field.
Undefined == <<"undefined">>
Absent == <<Undefined>>

IndexHtml == <<"i", "n", "d", "e", "x", ".", "h", "t", "m", "l">>
SlashIndexHtml == <<"/">> \o IndexHtml
CloudFunctionsNet ==
    <<".", "c", "l", "o", "u", "d", "f", "u", "n", "c", "t", "i", "o", "n", "s",
      ".", "n", "e", "t">>
SitemapXml == <<"/", "s", "i", "t", "e", "m", "a", "p", ".", "x", "m", "l">>

\* ------------------------------------------------------------------- hosts

\* A custom domain and the function-hosting domain of the deployment: the
\* hosts of inbound requests.
HostA == <<"a", ".", "i", "o">>
HostFn == <<"f">> \o CloudFunctionsNet
RequestHosts == {HostA, HostFn}

\* site.getDefaultDomain(): the canonical default domain of the deployment.
DefaultDomain ==
    <<"t", ".", "f", "i", "r", "e", "b", "a", "s", "e", "a", "p", "p", ".", "c", "o", "m">>

\* SHA256(host).toString(): the hex digest as crypto-js prints it, cut to its
\* first eight digits.
SHA256(host) ==
    CASE host = HostA -> <<"0", "d", "f", "9", "2", "f", "b", "0">>
      [] host = HostFn -> <<"9", "1", "9", "5", "d", "f", "3", "e">>
      [] host = DefaultDomain -> <<"2", "7", "3", "1", "2", "5", "d", "4">>

LowerChar(c) ==
    CASE c = "A" -> "a" [] c = "B" -> "b" [] c = "C" -> "c"
      [] c = "D" -> "d" [] c = "E" -> "e" [] c = "F" -> "f"
      [] OTHER -> c

\* String.prototype.toLowerCase
ToLowerCase(s) == [i \in DOMAIN s |-> LowerChar(s[i])]

\* The registry key of a host.
HostHash(currentHost) == ToLowerCase(SHA256(currentHost))

\* The order of the store's keys: children of a snapshot are visited in the
\* lexicographic order of their keys.
KeyChars ==
    <<"0", "1", "2", "3", "4", "5", "6", "7", "8", "9", "a", "b", "c", "d", "e", "f">>
CharRank(c) == CHOOSE i \in DOMAIN KeyChars : KeyChars[i] = c

RECURSIVE KeyLess(_, _)
KeyLess(k1, k2) ==
    IF k1 = <<>> THEN k2 # <<>>
    ELSE IF k2 = <<>> THEN FALSE
    ELSE IF Head(k1) = Head(k2) THEN KeyLess(Tail(k1), Tail(k2))
    ELSE CharRank(Head(k1)) < CharRank(Head(k2))

RECURSIVE SortedKeys(_)
SortedKeys(keys) ==
    IF keys = {} THEN <<>>
    ELSE LET first == CHOOSE k \in keys : \A other \in keys \ {k} : KeyLess(k, other)
         IN  <<first>> \o SortedKeys(keys \ {first})

\* ------------------------------------------------------------------- paths

\* content.getPublicPathToStorageFile(name): the public path of a storage
\* object.
PublicPath(name) == <<"/">> \o name

CssName == <<"t", "1", ".", "c", "s", "s">>
IndexName == <<"d">> \o SlashIndexHtml
ObjectNames == {CssName, IndexName}

\* String.prototype.indexOf: the smallest 0-based index at which needle occurs
\* in s, or -1.
IndexOf(s, needle) ==
    LET hits == {i \in 0..(Len(s) - Len(needle)) :
                    SubSeq(s, i + 1, i + Len(needle)) = needle}
    IN  IF hits = {} THEN -1
        ELSE CHOOSE i \in hits : \A j \in hits : i <= j

\* FilenameVariants cutting at the first occurrence of the suffix.
FilenameVariantsFirstOccurrence(filePath) ==
    IF EndsWith(filePath, SlashIndexHtml)
    THEN <<filePath,
           Substr(filePath, 0, IndexOf(filePath, SlashIndexHtml)),
           Substr(filePath, 0, IndexOf(filePath, IndexHtml))>>
    ELSE <<filePath>>

\* FilenameVariants without the directory form that ends in a slash.
FilenameVariantsNoSlashForm(filePath) ==
    IF EndsWith(filePath, SlashIndexHtml)
    THEN <<filePath, Substr(filePath, 0, LastIndexOf(filePath, SlashIndexHtml))>>
    ELSE <<filePath>>

\* The list of URL forms purgeCache and heatCache build for one path.
FilenameVariants(filePath) ==
    IF EndsWith(filePath, SlashIndexHtml)
    THEN <<filePath,
           Substr(filePath, 0, LastIndexOf(filePath, SlashIndexHtml)),
           Substr(filePath, 0, LastIndexOf(filePath, IndexHtml))>>
    ELSE <<filePath>>

\* ------------------------------------------------------------------- state

\* Events are handled at most two at a time.
EventIds == {1, 2}
\* Register calls run at most two at a time; a finished call's slot is reused.
RegIds == {1, 2}
StatusCodes == {200, 503}

VARIABLES
    registry,   \* cacheDomains: key -> [domain, lastSeen]
    now,        \* the store's server clock
    regs,       \* the register calls: state, hosts written, acknowledged writes
    evKind,     \* per event: which reaction handles it
    evIn,       \* per event: the event's payload
    evPc,       \* per event: the position of its handler
    ops,        \* per event: the purgeCache/heatCache invocations it started, each
                \* with the domains of the snapshot it read and its requests
    logged,     \* per event: the status codes its requests have logged
    cacheConfig,    \* functions.config().cache, the runtime configuration
    cacheHeader,    \* the values getCacheHeader has returned, in call order
    variantPath,    \* a path handed to purgeCache and heatCache
    variantList     \* the filename variants each of the two built for it

vars ==
    <<registry, now, regs, evKind, evIn, evPc, ops, logged,
      cacheConfig, cacheHeader, variantPath, variantList>>

IdleReg == [state |-> "idle", hosts |-> <<>>, acked |-> {}]

\* No runtime configuration of the cache, and no variant list built yet.
NoConfig == [defined |-> FALSE, cache |-> <<>>]
NoVariants == [purge |-> <<>>, heat |-> <<>>]

\* The registry is empty, no register call and no event is under way.
InitCache ==
    /\ registry = <<>>
    /\ now = 0
    /\ regs = [r \in RegIds |-> IdleReg]
    /\ evKind = [e \in EventIds |-> "none"]
    /\ evIn = [e \in EventIds |-> <<>>]
    /\ evPc = [e \in EventIds |-> "idle"]
    /\ ops = [e \in EventIds |-> <<>>]
    /\ logged = [e \in EventIds |-> {}]

InitLib ==
    /\ cacheConfig = NoConfig
    /\ cacheHeader = <<>>
    /\ variantPath = <<>>
    /\ variantList = NoVariants

Init == InitCache /\ InitLib

eventVars == <<evKind, evIn, evPc, ops, logged>>
storeVars == <<registry, now, regs>>
libVars == <<cacheConfig, cacheHeader, variantPath, variantList>>

\* ---------------------------------------------------------------- registry

\* StoreSet as a set() on the registry itself: every other child is dropped.
StoreSetWholeRegistry(reg, hostHash, currentHost, timestamp) ==
    [k \in {hostHash} |-> [domain |-> currentHost, lastSeen |-> timestamp]]

\* ref(hostRegistry).child(hostHash).set(data), with lastSeen replaced by the
\* server's timestamp.
StoreSet(reg, hostHash, currentHost, timestamp) ==
    [k \in DOMAIN reg \cup {hostHash} |->
        IF k = hostHash THEN [domain |-> currentHost, lastSeen |-> timestamp]
        ELSE reg[k]]

\* RegisterHosts with the default domain pushed for every host.
RegisterHostsAlwaysDefault(host) == <<host, DefaultDomain>>

\* The hosts one register call writes.
RegisterHosts(host) ==
    IF EndsWith(host, CloudFunctionsNet) THEN <<host, DefaultDomain>> ELSE <<host>>

\* registerRequestHost(host): the writes are sent, none is applied yet. The
\* call takes the first free slot.
RegisterRequestHost(r, host) ==
    /\ regs[r].state = "idle"
    /\ \A q \in RegIds : q < r => regs[q].state # "idle"
    /\ regs' = [regs EXCEPT ![r] =
                  [state |-> "pending", hosts |-> RegisterHosts(host), acked |-> {}]]
    /\ UNCHANGED <<registry, now>>
    /\ UNCHANGED eventVars
    /\ UNCHANGED libVars

\* StoreApply stamping with the clock of the caller: the process of the second
\* slot has a clock that stands still.
StoreApplyCallerClock(r, i) ==
    /\ regs[r].state = "pending"
    /\ i \in DOMAIN regs[r].hosts
    /\ i \notin regs[r].acked
    /\ registry' = StoreSet(registry, HostHash(regs[r].hosts[i]), regs[r].hosts[i],
                            IF r = 1 THEN now ELSE 0)
    /\ regs' = [regs EXCEPT ![r].acked = @ \cup {i}]
    /\ UNCHANGED now
    /\ UNCHANGED eventVars
    /\ UNCHANGED libVars

\* The store applies one write of a register call, stamps it with its clock
\* and acknowledges it.
StoreApply(r, i) ==
    /\ regs[r].state = "pending"
    /\ i \in DOMAIN regs[r].hosts
    /\ i \notin regs[r].acked
    /\ registry' = StoreSet(registry, HostHash(regs[r].hosts[i]), regs[r].hosts[i], now)
    /\ regs' = [regs EXCEPT ![r].acked = @ \cup {i}]
    /\ UNCHANGED now
    /\ UNCHANGED eventVars
    /\ UNCHANGED libVars

\* Promise.all(promises) of registerRequestHost resolves.
RegisterResolve(r) ==
    /\ regs[r].state = "pending"
    /\ regs[r].acked = DOMAIN regs[r].hosts
    /\ regs' = [regs EXCEPT ![r] = IdleReg]
    /\ UNCHANGED <<registry, now>>
    /\ UNCHANGED eventVars
    /\ UNCHANGED libVars

\* The store's server clock advances.
ClockTick ==
    /\ now < MaxClock
    /\ now' = now + 1
    /\ UNCHANGED <<registry, regs>>
    /\ UNCHANGED eventVars
    /\ UNCHANGED libVars

\* ---------------------------------------------------------- purge and heat

\* once('value'): the children of cacheDomains in key order.
Snapshot(reg) ==
    LET keys == SortedKeys(DOMAIN reg)
    IN  [i \in DOMAIN keys |-> reg[keys[i]]]

\* hostData.domain of every child of a snapshot, in the order of forEach; of a
\* child with no domain field it is undefined.
Domains(snap) ==
    [i \in DOMAIN snap |->
        IF "domain" \in DOMAIN snap[i] THEN snap[i].domain ELSE Undefined]

\* snap.forEach: one request per child and filename variant, in that order.
RECURSIVE Requests(_, _, _)
Requests(method, domains, variants) ==
    IF domains = <<>> THEN <<>>
    ELSE [j \in DOMAIN variants |->
            [method |-> method, hostname |-> Head(domains), path |-> variants[j]]]
         \o Requests(method, Tail(domains), variants)

\* purgeCache(filePath) up to its registry read. With no filePath the call to
\* endsWith throws and the returned promise is rejected.
PurgeCache(filePath) ==
    [kind |-> "purge", filePath |-> filePath,
     phase |-> IF filePath = Undefined THEN "threw" ELSE "reading",
     slept |-> FALSE, snap |-> <<>>, calls |-> <<>>, resolved |-> 0]

\* HeatCache without the sleep: the registry read is sent at once.
HeatCacheNoSleep(filePath) ==
    [kind |-> "heat", filePath |-> filePath,
     phase |-> IF filePath = Undefined THEN "threw" ELSE "reading",
     slept |-> FALSE, snap |-> <<>>, calls |-> <<>>, resolved |-> 0]

\* heatCache(filePath) up to its sleep.
HeatCache(filePath) ==
    [kind |-> "heat", filePath |-> filePath, phase |-> "sleeping",
     slept |-> FALSE, snap |-> <<>>, calls |-> <<>>, resolved |-> 0]

\* heatCache after its sleep: the call to endsWith throws with no filePath,
\* else the registry read is sent.
Woken(op) ==
    [op EXCEPT !.slept = TRUE,
               !.phase = IF op.filePath = Undefined THEN "threw" ELSE "reading"]

\* FannedOut with a forEach callback that returns true: the enumeration stops
\* after the first child.
FannedOutFirstChild(op, snap) ==
    LET method == IF op.kind = "purge" THEN "PURGE" ELSE "GET"
        first == IF snap = <<>> THEN <<>> ELSE <<Head(Domains(snap))>>
        calls == Requests(method, first, FilenameVariants(op.filePath))
    IN  [op EXCEPT !.snap = Domains(snap), !.calls = calls,
                   !.phase = IF calls = <<>> THEN "done" ELSE "issued"]

\* purgeCache and heatCache with the snapshot: every request is sent;
\* Promise.all of no request resolves at once.
FannedOut(op, snap) ==
    LET method == IF op.kind = "purge" THEN "PURGE" ELSE "GET"
        calls == Requests(method, Domains(snap), FilenameVariants(op.filePath))
    IN  [op EXCEPT !.snap = Domains(snap), !.calls = calls,
                   !.phase = IF calls = <<>> THEN "done" ELSE "issued"]

\* purgeFromCdn and heatUpCdn: the promise of one more request resolves;
\* Promise.all resolves with the last one.
Resolved(op) ==
    [op EXCEPT !.resolved = @ + 1,
               !.phase = IF op.resolved + 1 = Len(op.calls) THEN "done" ELSE "issued"]

AnyThrew(opSeq) == \E o \in DOMAIN opSeq : opSeq[o].phase = "threw"
AllDone(opSeq) == \A o \in DOMAIN opSeq : opSeq[o].phase = "done"

\* ------------------------------------------------------ storage reactions

\* content.getPublicPathToStorageFile(name) of the event's object.
FilePath(e) == PublicPath(evIn[e].name)

\* tanam_onFileDeleteUpdateCache: return purgeCache(filePath)
OnFileDelete(e, name) ==
    /\ evKind[e] = "none"
    /\ evKind' = [evKind EXCEPT ![e] = "fileDelete"]
    /\ evIn' = [evIn EXCEPT ![e] = [name |-> name]]
    /\ ops' = [ops EXCEPT ![e] = <<PurgeCache(PublicPath(name))>>]
    /\ evPc' = [evPc EXCEPT ![e] = "purging"]
    /\ UNCHANGED logged
    /\ UNCHANGED storeVars
    /\ UNCHANGED libVars

\* FileDeleteResume going on as the finalize reaction does: the path is heated
\* after the purge.
FileDeleteResumeHeats(e, started) ==
    IF evPc[e] = "purging" /\ started[1].phase = "done"
    THEN [pc |-> "heating", ops |-> Append(started, HeatCache(FilePath(e)))]
    ELSE IF evPc[e] = "heating" /\ started[2].phase = "done"
    THEN [pc |-> "done", ops |-> started]
    ELSE [pc |-> evPc[e], ops |-> started]

\* tanam_onFileDeleteUpdateCache once the promise of purgeCache resolves.
FileDeleteResume(e, started) ==
    IF evPc[e] = "purging" /\ started[1].phase = "done"
    THEN [pc |-> "done", ops |-> started]
    ELSE [pc |-> evPc[e], ops |-> started]

\* tanam_onFileChangeUpdateCache: await purgeCache(filePath)
OnFileChange(e, name) ==
    /\ evKind[e] = "none"
    /\ evKind' = [evKind EXCEPT ![e] = "fileChange"]
    /\ evIn' = [evIn EXCEPT ![e] = [name |-> name]]
    /\ ops' = [ops EXCEPT ![e] = <<PurgeCache(PublicPath(name))>>]
    /\ evPc' = [evPc EXCEPT ![e] = "purging"]
    /\ UNCHANGED logged
    /\ UNCHANGED storeVars
    /\ UNCHANGED libVars

\* FileChangeResume without the await: the heat starts as soon as the purge has
\* sent its requests.
FileChangeResumeNoAwait(e, started) ==
    IF evPc[e] = "purging" /\ started[1].phase \in {"issued", "done"}
    THEN [pc |-> "heating", ops |-> Append(started, HeatCache(FilePath(e)))]
    ELSE IF evPc[e] = "heating" /\ started[2].phase = "done"
    THEN [pc |-> "done", ops |-> started]
    ELSE [pc |-> evPc[e], ops |-> started]

\* tanam_onFileChangeUpdateCache once the purge resolves: return
\* heatCache(filePath), and once that resolves.
FileChangeResume(e, started) ==
    IF evPc[e] = "purging" /\ started[1].phase = "done"
    THEN [pc |-> "heating", ops |-> Append(started, HeatCache(FilePath(e)))]
    ELSE IF evPc[e] = "heating" /\ started[2].phase = "done"
    THEN [pc |-> "done", ops |-> started]
    ELSE [pc |-> evPc[e], ops |-> started]

\* ------------------------------------------------- content write reaction

PathP1 == <<"/", "p", "1">>
PathP2 == <<"/", "p", "2">>
PathIndex == <<"/", "b">> \o SlashIndexHtml

\* A document snapshot: whether the document exists, and its path field.
NoDoc == [exists |-> FALSE, path |-> Absent]
Doc(path) == [exists |-> TRUE, path |-> path]
DocSnapshots ==
    {NoDoc, Doc(Absent), Doc(<<>>), Doc(<<PathP1, PathP2>>), Doc(<<PathIndex>>)}

\* !!value of a path field: a list, even an empty one, is truthy.
Truthy(value) == value # Absent

\* path[0]
Elem0(path) == IF Len(path) >= 1 THEN path[1] ELSE Undefined

\* DocWriteHeat deciding on the snapshot before the change.
DocWriteHeatOnBefore(e, started) ==
    IF evIn[e].before.exists /\ Truthy(evIn[e].before.path)
    THEN [pc |-> "heating",
          ops |-> Append(started, HeatCache(Elem0(evIn[e].after.path)))]
    ELSE [pc |-> "done", ops |-> started]

\* tanam_onDocWriteUpdateCache, lines 48-53: heat the path after the change,
\* or return null.
DocWriteHeat(e, started) ==
    IF evIn[e].after.exists /\ Truthy(evIn[e].after.path)
    THEN [pc |-> "heating",
          ops |-> Append(started, HeatCache(Elem0(evIn[e].after.path)))]
    ELSE [pc |-> "done", ops |-> started]

\* tanam_onDocWriteUpdateCache: await site.getPrimaryDomain()
OnDocWrite(e, before, after) ==
    /\ evKind[e] = "none"
    /\ evKind' = [evKind EXCEPT ![e] = "docWrite"]
    /\ evIn' = [evIn EXCEPT ![e] = [before |-> before, after |-> after]]
    /\ evPc' = [evPc EXCEPT ![e] = "domain"]
    /\ UNCHANGED <<ops, logged>>
    /\ UNCHANGED storeVars
    /\ UNCHANGED libVars

\* tanam_onDocWriteUpdateCache, lines 39-46: the two purges; a purgeCache that
\* threw rejects Promise.all and the handler. With nothing to purge, on to
\* lines 48-53.
DocWritePurge(e) ==
    IF evIn[e].before.exists /\ Truthy(evIn[e].before.path)
    THEN LET started == <<PurgeCache(SitemapXml), PurgeCache(Elem0(evIn[e].before.path))>>
         IN  [pc |-> IF AnyThrew(started) THEN "rejected" ELSE "purging",
              ops |-> started]
    ELSE DocWriteHeat(e, <<>>)

\* tanam_onDocWriteUpdateCache once the primary domain is there.
OnDocWritePurge(e) ==
    /\ evKind[e] = "docWrite"
    /\ evPc[e] = "domain"
    /\ ops' = [ops EXCEPT ![e] = DocWritePurge(e).ops]
    /\ evPc' = [evPc EXCEPT ![e] = DocWritePurge(e).pc]
    /\ UNCHANGED <<evKind, evIn, logged>>
    /\ UNCHANGED storeVars
    /\ UNCHANGED libVars

\* DocWriteResume without the await of the purges: the heat starts once both
\* purges have sent their requests.
DocWriteResumeNoAwait(e, started) ==
    IF evPc[e] = "purging" /\ \A o \in DOMAIN started : started[o].phase \in {"issued", "done"}
    THEN DocWriteHeat(e, started)
    ELSE IF evPc[e] = "heating" /\ started[Len(started)].phase = "done"
    THEN [pc |-> "done", ops |-> started]
    ELSE IF evPc[e] = "heating" /\ started[Len(started)].phase = "threw"
    THEN [pc |-> "rejected", ops |-> started]
    ELSE [pc |-> evPc[e], ops |-> started]

\* tanam_onDocWriteUpdateCache once both purges have resolved, and once the
\* promise of heatCache settles.
DocWriteResume(e, started) ==
    IF evPc[e] = "purging" /\ AllDone(started)
    THEN DocWriteHeat(e, started)
    ELSE IF evPc[e] = "heating" /\ started[Len(started)].phase = "done"
    THEN [pc |-> "done", ops |-> started]
    ELSE IF evPc[e] = "heating" /\ started[Len(started)].phase = "threw"
    THEN [pc |-> "rejected", ops |-> started]
    ELSE [pc |-> evPc[e], ops |-> started]

\* -------------------------------------------------- theme change reaction

\* site.getDomains(): the domains of the site, those of the registry.
GetDomains(reg) == Domains(Snapshot(reg))

ThemeFileLists == {<<>>, <<[name |-> CssName]>>}
DocumentLists ==
    {<<>>, <<Doc(<<PathP1>>), Doc(<<PathP2>>)>>,
     <<Doc(<<PathP1>>), Doc(Absent)>>, <<Doc(<<>>), Doc(<<PathP2>>)>>}

\* Lines 73-75: one purgeCache per theme file.
ThemeFilePurges(themeFiles) ==
    [i \in DOMAIN themeFiles |-> PurgeCache(PublicPath(themeFiles[i].name))]

\* Lines 77-79: one purgeCache per document, up to the first document with no
\* path field, where reading path[0] throws.
RECURSIVE DocumentPurges(_)
DocumentPurges(documents) ==
    IF documents = <<>> THEN [started |-> <<>>, threw |-> FALSE]
    ELSE IF ~Truthy(Head(documents).path) THEN [started |-> <<>>, threw |-> TRUE]
    ELSE LET rest == DocumentPurges(Tail(documents))
         IN  [started |-> <<PurgeCache(Elem0(Head(documents).path))>> \o rest.started,
              threw |-> rest.threw]

\* Lines 70-80: the loop over the domains.
RECURSIVE ThemePurges(_, _, _)
ThemePurges(domains, themeFiles, documents) ==
    IF domains = <<>> THEN [started |-> <<>>, threw |-> FALSE]
    ELSE LET docs == DocumentPurges(documents)
             here == ThemeFilePurges(themeFiles) \o docs.started
         IN  IF docs.threw THEN [started |-> here, threw |-> TRUE]
             ELSE LET rest == ThemePurges(Tail(domains), themeFiles, documents)
                  IN  [started |-> here \o rest.started, threw |-> rest.threw]

\* OnThemeChange without the check of the previous theme.
OnThemeChangeUnchecked(e, beforeExists, themeFiles, documents) ==
    /\ evKind[e] = "none"
    /\ evKind' = [evKind EXCEPT ![e] = "themeChange"]
    /\ evIn' = [evIn EXCEPT ![e] =
                  [beforeExists |-> beforeExists, themeFiles |-> themeFiles,
                   documents |-> documents, domains |-> <<>>]]
    /\ evPc' = [evPc EXCEPT ![e] = "loading"]
    /\ UNCHANGED <<ops, logged>>
    /\ UNCHANGED storeVars
    /\ UNCHANGED libVars

\* tanam_onThemeChangeUpdateCache, lines 57-60.
OnThemeChange(e, beforeExists, themeFiles, documents) ==
    /\ evKind[e] = "none"
    /\ evKind' = [evKind EXCEPT ![e] = "themeChange"]
    /\ evIn' = [evIn EXCEPT ![e] =
                  [beforeExists |-> beforeExists, themeFiles |-> themeFiles,
                   documents |-> documents, domains |-> <<>>]]
    /\ evPc' = [evPc EXCEPT ![e] = IF beforeExists THEN "loading" ELSE "done"]
    /\ UNCHANGED <<ops, logged>>
    /\ UNCHANGED storeVars
    /\ UNCHANGED libVars

\* tanam_onThemeChangeUpdateCache, lines 62-82: the domains, theme files and
\* documents have been read, and every purgeCache is started. Promise.all of
\* no promise resolves at once.
OnThemeChangePurge(e) ==
    /\ evKind[e] = "themeChange"
    /\ evPc[e] = "loading"
    /\ LET domains == GetDomains(registry)
           purges == ThemePurges(domains, evIn[e].themeFiles, evIn[e].documents)
       IN  /\ evIn' = [evIn EXCEPT ![e].domains = domains]
           /\ ops' = [ops EXCEPT ![e] = purges.started]
           /\ evPc' = [evPc EXCEPT ![e] =
                         IF purges.threw \/ AnyThrew(purges.started) THEN "rejected"
                         ELSE IF purges.started = <<>> THEN "done"
                         ELSE "purging"]
    /\ UNCHANGED <<evKind, logged>>
    /\ UNCHANGED storeVars
    /\ UNCHANGED libVars

\* tanam_onThemeChangeUpdateCache once Promise.all(promises) resolves.
ThemeChangeResume(e, started) ==
    IF evPc[e] = "purging" /\ AllDone(started)
    THEN [pc |-> "done", ops |-> started]
    ELSE [pc |-> evPc[e], ops |-> started]

\* ------------------------------------------------------- event loop steps

\* The handler of event e goes on, in the same turn of the event loop, when a
\* promise it awaits has settled.
Resume(e, started) ==
    CASE evKind[e] = "fileDelete" -> FileDeleteResume(e, started)
      [] evKind[e] = "fileChange" -> FileChangeResume(e, started)
      [] evKind[e] = "docWrite" -> DocWriteResume(e, started)
      [] evKind[e] = "themeChange" -> ThemeChangeResume(e, started)

\* Running with a sleep that blocks: nothing of an event goes on while a heat
\* of another event is in its delay.
RunningUnlessAsleep(e) ==
    /\ evPc[e] # "crashed"
    /\ \A f \in EventIds \ {e} : \A o \in DOMAIN ops[f] : ops[f][o].phase # "sleeping"

Running(e) == evPc[e] # "crashed"

\* heatCache: the timer fires.
HeatWake(e, o) ==
    /\ Running(e)
    /\ ops[e][o].phase = "sleeping"
    /\ LET after == Resume(e, [ops[e] EXCEPT ![o] = Woken(@)])
       IN  /\ ops' = [ops EXCEPT ![e] = after.ops]
           /\ evPc' = [evPc EXCEPT ![e] = after.pc]
    /\ UNCHANGED <<evKind, evIn, logged>>
    /\ UNCHANGED storeVars
    /\ UNCHANGED libVars

\* purgeCache and heatCache: the snapshot of the registry arrives.
FanOut(e, o) ==
    /\ Running(e)
    /\ ops[e][o].phase = "reading"
    /\ LET after == Resume(e, [ops[e] EXCEPT ![o] = FannedOut(@, Snapshot(registry))])
       IN  /\ ops' = [ops EXCEPT ![e] = after.ops]
           /\ evPc' = [evPc EXCEPT ![e] = after.pc]
    /\ UNCHANGED <<evKind, evIn, logged>>
    /\ UNCHANGED storeVars
    /\ UNCHANGED libVars

\* purgeFromCdn and heatUpCdn: a response arrives, its status is logged and
\* the request's promise resolves.
CdnResponse(e, o, statusCode) ==
    /\ Running(e)
    /\ ops[e][o].phase = "issued"
    /\ LET after == Resume(e, [ops[e] EXCEPT ![o] = Resolved(@)])
       IN  /\ ops' = [ops EXCEPT ![e] = after.ops]
           /\ evPc' = [evPc EXCEPT ![e] = after.pc]
    /\ logged' = [logged EXCEPT ![e] = @ \cup {statusCode}]
    /\ UNCHANGED <<evKind, evIn>>
    /\ UNCHANGED storeVars
    /\ UNCHANGED libVars

\* purgeFromCdn and heatUpCdn: the connection fails before a response. The
\* request emits 'error', which has no listener: the promise never resolves
\* and the uncaught exception ends the function.
CdnConnectionError(e, o) ==
    /\ Running(e)
    /\ ops[e][o].phase = "issued"
    /\ ops' = [ops EXCEPT ![e][o].phase = "broken"]
    /\ evPc' = [evPc EXCEPT ![e] = "crashed"]
    /\ UNCHANGED <<evKind, evIn, logged>>
    /\ UNCHANGED storeVars
    /\ UNCHANGED libVars

\* ---------------------------------------------------------- specifications

\* The register calls of the slots in slots, for requests to the hosts in
\* hosts.
RegisterStep(slots, hosts) ==
    \/ \E r \in slots, host \in hosts : RegisterRequestHost(r, host)
    \/ \E r \in slots, i \in 1..2 : StoreApply(r, i)
    \/ \E r \in slots : RegisterResolve(r)

\* The timers of the heatCache invocations of event e.
TimerStep(e) == \E o \in DOMAIN ops[e] : HeatWake(e, o)

\* The store and network callbacks of the purgeCache and heatCache invocations
\* of event e.
CacheStep(e) ==
    \/ \E o \in DOMAIN ops[e] : FanOut(e, o)
    \/ \E o \in DOMAIN ops[e], statusCode \in StatusCodes : CdnResponse(e, o, statusCode)
    \/ \E o \in DOMAIN ops[e] : CdnConnectionError(e, o)

StorageStep(e, names) ==
    \/ \E name \in names : OnFileDelete(e, name)
    \/ \E name \in names : OnFileChange(e, name)

DocWriteStep(e) ==
    \/ \E before \in DocSnapshots, after \in DocSnapshots : OnDocWrite(e, before, after)
    \/ OnDocWritePurge(e)

ThemeStep(e) ==
    \/ \E beforeExists \in BOOLEAN, themeFiles \in ThemeFileLists,
          documents \in DocumentLists :
          OnThemeChange(e, beforeExists, themeFiles, documents)
    \/ OnThemeChangePurge(e)

\* One storage event, with register calls going on.
Next == RegisterStep({1}, RequestHosts) \/ TimerStep(1) \/ CacheStep(1) \/ StorageStep(1, ObjectNames)
Spec == Init /\ [][Next]_vars

\* One content write event, with register calls going on.
NextDoc ==
    RegisterStep({1}, RequestHosts) \/ TimerStep(1) \/ CacheStep(1) \/ DocWriteStep(1)
SpecDoc == Init /\ [][NextDoc]_vars

\* One theme change event, with register calls for the function-hosting
\* domain going on.
NextTheme == RegisterStep({1}, {HostFn}) \/ CacheStep(1) \/ ThemeStep(1)
SpecTheme == Init /\ [][NextTheme]_vars

\* Register calls, two at a time, while the server clock advances and the
\* purge and heat of one storage event go on.
NextReg ==
    \/ RegisterStep(RegIds, RequestHosts)
    \/ ClockTick
    \/ TimerStep(1)
    \/ CacheStep(1)
    \/ StorageStep(1, {CssName})
SpecReg == Init /\ [][NextReg]_vars

\* Two storage events at a time, with register calls for a custom domain
\* going on.
NextTwo ==
    \/ RegisterStep({1}, {HostA})
    \/ TimerStep(1)
    \/ CacheStep(1)
    \/ StorageStep(1, ObjectNames)
    \/ TimerStep(2)
    \/ CacheStep(2)
    \/ StorageStep(2, {CssName})
SpecTwo == Init /\ [][NextTwo]_vars

\* A child of cacheDomains that some other writer left without a domain field.
MalformedKey == <<"5", "5">>
MalformedEntry == [lastSeen |-> 0]

InitMalformed ==
    /\ registry = [k \in {MalformedKey} |-> MalformedEntry]
    /\ now = 0
    /\ regs = [r \in RegIds |-> IdleReg]
    /\ evKind = [e \in EventIds |-> "none"]
    /\ evIn = [e \in EventIds |-> <<>>]
    /\ evPc = [e \in EventIds |-> "idle"]
    /\ ops = [e \in EventIds |-> <<>>]
    /\ logged = [e \in EventIds |-> {}]
    /\ InitLib

\* One storage event and register calls, on a registry that holds a child with
\* no domain field.
SpecMalformed == InitMalformed /\ [][Next]_vars

\* ------------------------------------------- filename variants on their own

\* Most pieces a path is put together from.
MaxPieces == 4

\* The pieces of the paths: a slash, a letter, 'index.html' and its two halves.
PathPieces ==
    {<<"/">>, <<"a">>, IndexHtml, <<"i", "n", "d", "e", "x">>, <<".", "h", "t", "m", "l">>}

RECURSIVE PathsOf(_)
PathsOf(n) ==
    IF n = 0 THEN {<<>>}
    ELSE PathsOf(n - 1) \cup {p \o piece : p \in PathsOf(n - 1), piece \in PathPieces}

\* The filePath arguments of purgeCache and heatCache.
FilePaths == PathsOf(MaxPieces)

\* Some path is handed to purgeCache and heatCache.
InitVariants ==
    /\ InitCache
    /\ cacheConfig = NoConfig
    /\ cacheHeader = <<>>
    /\ variantPath \in FilePaths
    /\ variantList = NoVariants

\* purgeCache, lines 145-150: filenameVariants of the path.
PurgeCacheVariants ==
    /\ variantList.purge = <<>>
    /\ variantList' = [variantList EXCEPT !.purge = FilenameVariants(variantPath)]
    /\ UNCHANGED <<cacheConfig, cacheHeader, variantPath>>
    /\ UNCHANGED <<eventVars, storeVars>>

\* heatCache, lines 125-130: filenameVariants of the path.
HeatCacheVariants ==
    /\ variantList.heat = <<>>
    /\ variantList' = [variantList EXCEPT !.heat = FilenameVariants(variantPath)]
    /\ UNCHANGED <<cacheConfig, cacheHeader, variantPath>>
    /\ UNCHANGED <<eventVars, storeVars>>

\* purgeCache and heatCache build the variants of one path.
NextVariants == PurgeCacheVariants \/ HeatCacheVariants
SpecVariants == InitVariants /\ [][NextVariants]_vars

\* ------------------------------------------------------------ cache header

\* Most calls of getCacheHeader.
MaxCalls == 2

\* CONFIG_DEFAULT
CONFIG_DEFAULT == [s_max_age |-> 60 * 60 * 24 * 365, max_age |-> 60 * 10]

\* The keys and the values of a runtime configuration of the cache.
ConfigKeys == {"max_age", "s_max_age", "ttl"}
ConfigValues == {0, 30, 86400}

\* functions.config().cache: undefined, or an object with some of the keys.
CacheConfigs ==
    {NoConfig} \cup
    {[defined |-> TRUE, cache |-> c] :
        c \in UNION {[keys -> ConfigValues] : keys \in SUBSET ConfigKeys}}

\* { ...a, ...b }: the properties of a, then those of b over them.
Spread(a, b) ==
    [k \in DOMAIN a \cup DOMAIN b |-> IF k \in DOMAIN b THEN b[k] ELSE a[k]]

Digits == <<"0", "1", "2", "3", "4", "5", "6", "7", "8", "9">>

\* A number inside a template literal: its decimal digits.
RECURSIVE NumberToString(_)
NumberToString(n) ==
    IF n < 10 THEN <<Digits[n + 1]>>
    ELSE NumberToString(n \div 10) \o <<Digits[(n % 10) + 1]>>

PublicMaxAge == <<"p", "u", "b", "l", "i", "c", ",", " ", "m", "a", "x", "-", "a", "g", "e", "=">>
SMaxAge == <<",", " ", "s", "-", "m", "a", "x", "a", "g", "e", "=">>

\* GetCacheHeader without the defaults: the configuration alone is read.
GetCacheHeaderNoDefaults(cache) ==
    LET config == Spread(cache.cache, cache.cache)
    IN  PublicMaxAge
        \o (IF "max_age" \in DOMAIN config THEN NumberToString(config.max_age) ELSE Undefined)
        \o SMaxAge
        \o (IF "s_max_age" \in DOMAIN config THEN NumberToString(config.s_max_age) ELSE Undefined)

\* getCacheHeader(), with cache the value of functions.config().cache.
GetCacheHeader(cache) ==
    LET config == Spread(CONFIG_DEFAULT, IF cache.defined THEN cache.cache ELSE <<>>)
    IN  PublicMaxAge \o NumberToString(config.max_age)
        \o SMaxAge \o NumberToString(config.s_max_age)

\* The runtime configuration of the process changes.
ConfigChange(cache) ==
    /\ cache # cacheConfig
    /\ cacheConfig' = cache
    /\ UNCHANGED <<cacheHeader, variantPath, variantList>>
    /\ UNCHANGED <<eventVars, storeVars>>

\* A call of getCacheHeader returns.
GetCacheHeaderCall ==
    /\ Len(cacheHeader) < MaxCalls
    /\ cacheHeader' = Append(cacheHeader, GetCacheHeader(cacheConfig))
    /\ UNCHANGED <<cacheConfig, variantPath, variantList>>
    /\ UNCHANGED <<eventVars, storeVars>>

\* Calls of getCacheHeader while the configuration changes.
NextHeader == (\E cache \in CacheConfigs : ConfigChange(cache)) \/ GetCacheHeaderCall
SpecHeader == Init /\ [][NextHeader]_vars

\* ------------------------------------------------------------------ claims

\* expand(path) of the specification, section 4.1.
Expand(path) ==
    IF EndsWith(path, SlashIndexHtml)
    THEN {path, SubSeq(path, 1, Len(path) - 11), SubSeq(path, 1, Len(path) - 10)}
    ELSE {path}

Range(seq) == {seq[i] : i \in DOMAIN seq}

\* The invocation has sent its requests.
Fanned(op) == op.phase \in {"issued", "done", "broken"}

\* How many requests of an invocation are for one (method, domain, path).
Count(op, method, domain, path) ==
    Cardinality({i \in DOMAIN op.calls :
        op.calls[i] = [method |-> method, hostname |-> domain, path |-> path]})

\* The requests of an invocation are exactly one request of the method per
\* pair of a domain of its snapshot and a variant of its path.
OnePerPair(op, method) ==
    /\ Len(op.calls) = Len(op.snap) * Cardinality(Expand(op.filePath))
    /\ \A d \in Range(op.snap), v \in Expand(op.filePath) : Count(op, method, d, v) = 1
    /\ \A i \in DOMAIN op.calls :
          /\ op.calls[i].method = method
          /\ op.calls[i].hostname \in Range(op.snap)
          /\ op.calls[i].path \in Expand(op.filePath)

RegistryDomains == {registry[k].domain : k \in DOMAIN registry}

\* The requests of an event, over all its invocations.
EventCalls(e) ==
    UNION {{<<o, i>> : i \in DOMAIN ops[e][o].calls} : o \in DOMAIN ops[e]}
CallsWith(e, method) == {c \in EventCalls(e) : ops[e][c[1]].calls[c[2]].method = method}

\* C1: one purge(path) issues exactly |registry| x |expand(path)| PURGE
\* calls: one call for every pair of a domain of the registry snapshot it read
\* and a variant of the path, and no other call.
C1_PurgeOnePerPair ==
    \A e \in EventIds : \A o \in DOMAIN ops[e] :
        LET op == ops[e][o]
        IN  op.kind = "purge" =>
              /\ Fanned(op) => OnePerPair(op, "PURGE") /\ Range(op.snap) \subseteq RegistryDomains
              /\ ~Fanned(op) => op.calls = <<>>

C1_Witness ==
    \E e \in EventIds : \E o \in DOMAIN ops[e] :
        /\ ops[e][o].kind = "purge"
        /\ Fanned(ops[e][o])
        /\ Len(ops[e][o].snap) = 3
        /\ Len(ops[e][o].calls) = 9

\* C2: purge(path) completes exactly once every one of its requests has
\* resolved, and it never fails, whatever the outcome of each request (any
\* status code, or a connection that fails without a response).
C2_PurgeNeverFails ==
    \A e \in EventIds : \A o \in DOMAIN ops[e] :
        LET op == ops[e][o]
        IN  op.kind = "purge" =>
              /\ op.phase # "broken"
              /\ evPc[e] # "crashed"
              /\ op.phase = "done" <=> (op.phase \notin {"reading", "threw"}
                                         /\ op.resolved = Len(op.calls))

\* C3: heat(path, delay) issues no GET call before the delay has elapsed, and
\* after it exactly one GET call per pair of a domain of the registry snapshot
\* and a variant of the path; it never issues a PURGE call.
C3_HeatAfterDelay ==
    \A e \in EventIds : \A o \in DOMAIN ops[e] :
        LET op == ops[e][o]
        IN  op.kind = "heat" =>
              /\ ~op.slept => op.phase = "sleeping" /\ op.calls = <<>>
              /\ Fanned(op) =>
                    /\ op.slept
                    /\ OnePerPair(op, "GET")
                    /\ Range(op.snap) \subseteq RegistryDomains
              /\ ~Fanned(op) => op.calls = <<>>

C3_Witness ==
    \E e \in EventIds : \E o \in DOMAIN ops[e] :
        /\ ops[e][o].kind = "heat"
        /\ ops[e][o].slept
        /\ Fanned(ops[e][o])
        /\ Len(ops[e][o].snap) = 3
        /\ Len(ops[e][o].calls) = 9

\* C4: through register calls, purges and heats in any interleaving the
\* registry only grows: a key once written stays, each key holds the one
\* entry of the host hashed to it, and a write to a key that was there
\* changes only lastSeen.
C4_RegistryGrows ==
    [][/\ DOMAIN registry \subseteq DOMAIN registry'
       /\ \A k \in DOMAIN registry : registry'[k].domain = registry[k].domain
       /\ \A k \in DOMAIN registry' : HostHash(registry'[k].domain) = k]_vars

\* Both register calls for the function-hosting domain have written its
\* entry, the later one after the clock advanced, while a purge is out.
C4_Witness ==
    /\ regs[1].state = "pending" /\ regs[1].hosts[1] = HostFn /\ regs[1].acked = {1, 2}
    /\ regs[2].state = "pending" /\ regs[2].hosts[1] = HostFn /\ regs[2].acked = {1}
    /\ registry[HostHash(HostFn)].lastSeen = 1
    /\ registry[HostHash(DefaultDomain)].lastSeen = 0
    /\ HostHash(HostA) \in DOMAIN registry
    /\ \E o \in DOMAIN ops[1] : ops[1][o].phase = "issued"

\* C5: register(host) writes the entry of host and, if and only if host ends
\* with '.cloudfunctions.net', the entry of the default domain under that
\* domain's own hash; it completes only after every one of these writes has
\* been acknowledged; no other entry of the registry changes.
C5_RegisterUpserts ==
    [][/\ \A r \in RegIds : regs'[r].state = "pending" =>
             /\ regs'[r].hosts[1] \in RequestHosts
             /\ regs'[r].hosts = IF regs'[r].hosts[1] = HostFn
                                 THEN <<HostFn, DefaultDomain>>
                                 ELSE <<regs'[r].hosts[1]>>
       /\ \A r \in RegIds : regs[r].state = "pending" /\ regs'[r].state = "idle" =>
             /\ regs[r].acked = DOMAIN regs[r].hosts
             /\ \A i \in DOMAIN regs[r].hosts :
                   /\ HostHash(regs[r].hosts[i]) \in DOMAIN registry
                   /\ registry[HostHash(regs[r].hosts[i])].domain = regs[r].hosts[i]
       /\ \A k \in DOMAIN registry' :
             (k \notin DOMAIN registry \/ registry'[k] # registry[k]) =>
                \E r \in RegIds : \E i \in DOMAIN regs[r].hosts :
                    /\ regs[r].state = "pending"
                    /\ i \notin regs[r].acked
                    /\ i \in regs'[r].acked
                    /\ k = HostHash(regs[r].hosts[i])
                    /\ registry'[k].domain = regs[r].hosts[i]]_vars

C5_Witness ==
    \E r \in RegIds :
        /\ regs[r].state = "pending"
        /\ regs[r].hosts = <<HostFn, DefaultDomain>>
        /\ regs[r].acked = {1, 2}
        /\ DOMAIN registry = {HostHash(HostFn), HostHash(DefaultDomain)}

HasPath(doc) == doc.exists /\ Truthy(doc.path)

ThemePaths(e) ==
    {PublicPath(f.name) : f \in Range(evIn[e].themeFiles)}
        \cup {Elem0(d.path) : d \in Range(evIn[e].documents)}

\* C7: a theme change with a previous theme, registry domains D, theme files F
\* and documents with primary paths P issues exactly one PURGE call per pair in
\* D x (publicPath(F) u P), no pair more than once, and no GET call.
C7_ThemeOnePurgePerPair ==
    \A e \in EventIds :
        (/\ evKind[e] = "themeChange"
         /\ evPc[e] \in {"purging", "done"}
         /\ \A d \in Range(evIn[e].documents) : Truthy(d.path) /\ d.path # <<>>
         /\ \A o \in DOMAIN ops[e] : Fanned(ops[e][o]) /\ ops[e][o].snap = evIn[e].domains)
        => /\ CallsWith(e, "GET") = {}
           /\ \A d \in Range(evIn[e].domains), p \in ThemePaths(e) :
                 Cardinality({c \in EventCalls(e) :
                     ops[e][c[1]].calls[c[2]] =
                         [method |-> "PURGE", hostname |-> d, path |-> p]}) = 1
           /\ Cardinality(EventCalls(e)) =
                 Len(evIn[e].domains) * Cardinality(ThemePaths(e))

\* C8: the storage finalize reaction purges the object's public path and then
\* heats it: no GET call is issued before every PURGE call of the event has
\* resolved and the heat's delay has then elapsed.
C8_FinalizePurgeThenHeat ==
    \A e \in EventIds : evKind[e] = "fileChange" =>
        /\ ops[e][1].kind = "purge" /\ ops[e][1].filePath = PublicPath(evIn[e].name)
        /\ Len(ops[e]) <= 2
        /\ Len(ops[e]) = 2 =>
              /\ ops[e][2].kind = "heat" /\ ops[e][2].filePath = PublicPath(evIn[e].name)
              /\ ops[e][1].phase = "done"
              /\ ops[e][1].resolved = Len(ops[e][1].calls)
        /\ \A c \in CallsWith(e, "GET") :
              /\ c[1] = 2
              /\ ops[e][2].slept
              /\ \A p \in CallsWith(e, "PURGE") : p[1] = 1 /\ p[2] <= ops[e][1].resolved
        /\ evPc[e] = "done" => Len(ops[e]) = 2 /\ ops[e][2].phase = "done"

C8_Witness ==
    /\ evKind[1] = "fileChange"
    /\ Len(ops[1]) = 2
    /\ Len(ops[1][1].calls) = 9
    /\ ops[1][2].phase = "issued"
    /\ Len(ops[1][2].calls) = 9

\* C9: the storage delete reaction issues PURGE calls for the object's public
\* path on every registered domain and never a GET call for it.
C9_DeletePurgesOnly ==
    \A e \in EventIds : evKind[e] = "fileDelete" =>
        /\ Len(ops[e]) = 1
        /\ ops[e][1].kind = "purge"
        /\ ops[e][1].filePath = PublicPath(evIn[e].name)
        /\ CallsWith(e, "GET") = {}
        /\ Fanned(ops[e][1]) =>
              /\ Range(ops[e][1].snap) \subseteq RegistryDomains
              /\ \A d \in Range(ops[e][1].snap) :
                    Count(ops[e][1], "PURGE", d, PublicPath(evIn[e].name)) = 1
        /\ evPc[e] = "done" <=> ops[e][1].phase = "done"

C9_Witness ==
    /\ evKind[1] = "fileDelete"
    /\ evPc[1] = "done"
    /\ Len(ops[1][1].snap) = 3
    /\ Len(ops[1][1].calls) = 3

\* C10: no error of purge, heat or register surfaces to the event trigger:
\* every reaction finishes reporting success, even when every CDN call failed
\* (connection error or non-2xx status).
C10_ReactionsReportSuccess ==
    \A e \in EventIds : evPc[e] \notin {"crashed", "rejected"}

\* C11: purgeFromCdn and heatUpCdn always resolve and never signal failure:
\* every request an invocation has sent resolves, on a response of any
\* status code or when its connection ends, and the caller never sends a
\* second request for the same pair, whatever the status codes logged.
C11_CdnCallsAlwaysResolve ==
    \A e \in EventIds : \A o \in DOMAIN ops[e] :
        LET op == ops[e][o]
            method == IF op.kind = "purge" THEN "PURGE" ELSE "GET"
        IN  /\ op.resolved <= Len(op.calls)
            /\ Fanned(op) =>
                  \A d \in Range(op.snap), v \in Expand(op.filePath) :
                      Count(op, method, d, v) = 1
            /\ op.phase # "broken"
            /\ Running(e)

\* C12: the filename variants purgeCache and heatCache build are those of
\* expand: the path alone when it does not end in '/index.html', else the
\* path, the path without the trailing '/index.html' and the path without
\* the trailing 'index.html'; purge and heat build the same variants.
C12_VariantsAreExpand ==
    \A list \in {variantList.purge, variantList.heat} \ {<<>>} :
        /\ Range(list) = Expand(variantPath)
        /\ ~EndsWith(variantPath, SlashIndexHtml) => list = <<variantPath>>
        /\ EndsWith(variantPath, SlashIndexHtml) =>
              /\ Len(list) = 3
              /\ list[1] = variantPath
              /\ list[2] \o SlashIndexHtml = variantPath
              /\ list[3] \o IndexHtml = variantPath
              /\ list[3] = list[2] \o <<"/">>
        /\ variantList.purge # <<>> /\ variantList.heat # <<>> =>
              variantList.purge = variantList.heat

\* '/a/index.html' gives '/a/index.html', '/a' and '/a/' in purge and heat.
C12_Witness ==
    /\ variantPath = <<"/", "a">> \o SlashIndexHtml
    /\ variantList.purge = <<variantPath, <<"/", "a">>, <<"/", "a", "/">>>>
    /\ variantList.heat = variantList.purge

\* C13: across any interleaving of register calls the lastSeen of an entry
\* never decreases: every write stores the store's clock at the time it is
\* applied, which is no smaller than the value it overwrites.
C13_LastSeenMonotone ==
    [][\A k \in DOMAIN registry :
          /\ k \in DOMAIN registry'
          /\ registry'[k].lastSeen >= registry[k].lastSeen
          /\ registry'[k] # registry[k] => registry'[k].lastSeen = now']_vars

\* Two register calls for one host have both been applied, the later one
\* after the clock advanced past the stamp of an older entry.
C13_Witness ==
    /\ regs[1].state = "pending" /\ regs[1].hosts = <<HostA>> /\ regs[1].acked = {1}
    /\ regs[2].state = "pending" /\ regs[2].hosts = <<HostA>> /\ regs[2].acked = {1}
    /\ HostHash(HostA) \in DOMAIN registry
    /\ registry[HostHash(HostA)].lastSeen = 1
    /\ HostHash(DefaultDomain) \in DOMAIN registry
    /\ registry[HostHash(DefaultDomain)].lastSeen = 0

\* The header with no overrides, and with max_age set to 30, letter by letter.
DefaultHeader ==
    <<"p", "u", "b", "l", "i", "c", ",", " ", "m", "a", "x", "-", "a", "g", "e", "=", "6",
      "0", "0", ",", " ", "s", "-", "m", "a", "x", "a", "g", "e", "=", "3", "1", "5", "3",
      "6", "0", "0", "0">>
MaxAge30Header ==
    <<"p", "u", "b", "l", "i", "c", ",", " ", "m", "a", "x", "-", "a", "g", "e", "=", "3",
      "0", ",", " ", "s", "-", "m", "a", "x", "a", "g", "e", "=", "3", "1", "5", "3", "6",
      "0", "0", "0">>

\* The value of a setting: the override if there is one, else the default.
Setting(cache, key, default) ==
    IF cache.defined /\ key \in DOMAIN cache.cache THEN cache.cache[key] ELSE default

\* Whether part occurs in the sequence s.
Contains(s, part) ==
    \E i \in 0..(Len(s) - Len(part)) : SubSeq(s, i + 1, i + Len(part)) = part

\* C14: getCacheHeader returns 'public, max-age=<max_age>, s-maxage=<s_max_age>'
\* with every setting taken from the runtime configuration if it is there and
\* else from the defaults 600 and 31536000; each call reads the configuration
\* as it is at the call.
C14_CacheHeader ==
    [][Len(cacheHeader') > Len(cacheHeader) =>
          LET header == cacheHeader'[Len(cacheHeader')]
              maxAge == Setting(cacheConfig, "max_age", 600)
              sMaxAge == Setting(cacheConfig, "s_max_age", 31536000)
          IN  /\ header = PublicMaxAge \o NumberToString(maxAge)
                            \o SMaxAge \o NumberToString(sMaxAge)
              /\ (~cacheConfig.defined \/ DOMAIN cacheConfig.cache \subseteq {"ttl"}) =>
                    header =  DefaultHeader
              /\ maxAge = 30 => Contains(header, <<"m", "a", "x", "-", "a", "g", "e", "=", "3", "0">>)
              /\ SubSeq(cacheHeader', 1, Len(cacheHeader)) = cacheHeader]_vars

\* The first call ran with no configuration, the second after max_age was set
\* to 30 and an unknown key added.
C14_Witness ==
    /\ Len(cacheHeader) = 2
    /\ cacheHeader[1] =  DefaultHeader
    /\ cacheHeader[2] =  MaxAge30Header
    /\ cacheConfig = [defined |-> TRUE, cache |-> [max_age |-> 30, ttl |-> 0]]

\* The domains of the well-formed children among those a fan-out went over.
WellFormed(op) == Range(op.snap) \ {Undefined}

\* C15: a child of the registry with no domain field is skipped by purge and
\* heat: no request is sent for it, every well-formed child still gets one
\* request per variant, and the invocation does not fault.
C15_MalformedEntrySkipped ==
    \A e \in EventIds : \A o \in DOMAIN ops[e] :
        LET op == ops[e][o]
            method == IF op.kind = "purge" THEN "PURGE" ELSE "GET"
        IN  /\ op.phase # "threw"
            /\ Fanned(op) =>
                  /\ \A i \in DOMAIN op.calls : op.calls[i].hostname # Undefined
                  /\ Len(op.calls) =
                        Cardinality(WellFormed(op)) * Cardinality(Expand(op.filePath))
                  /\ \A d \in WellFormed(op), v \in Expand(op.filePath) :
                        Count(op, method, d, v) = 1

\* A content record has a usable path: a path list with an element 0.
Usable(doc) == doc.exists /\ Truthy(doc.path) /\ doc.path # <<>>

\* C16: a content record without a usable path (no path field, or a path list
\* with no element 0) is nothing to purge or heat and never an error: the
\* content write reaction starts nothing for that side and is not rejected, and
\* the theme change reaction is not rejected and still purges the paths of the
\* other records.
C16_NoUsablePathNotAnError ==
    \A e \in EventIds :
        /\ evKind[e] = "docWrite" =>
              /\ evPc[e] # "rejected"
              /\ ~Usable(evIn[e].before) =>
                    \A o \in DOMAIN ops[e] : ops[e][o].kind # "purge"
              /\ ~Usable(evIn[e].after) =>
                    \A o \in DOMAIN ops[e] : ops[e][o].kind # "heat"
        /\ evKind[e] = "themeChange" =>
              /\ evPc[e] # "rejected"
              /\ evPc[e] \in {"purging", "done"} /\ evIn[e].domains # <<>> =>
                    \A d \in Range(evIn[e].documents) : Usable(d) =>
                        \E o \in DOMAIN ops[e] : ops[e][o].filePath = Elem0(d.path)

\* C19: a theme change with no previous theme is a no-op: the reaction returns
\* at once, reads neither the domains nor the theme files nor the documents,
\* starts no purge and no heat and sends no request.
C19_FirstThemeIsNoOp ==
    \A e \in EventIds :
        evKind[e] = "themeChange" /\ ~evIn[e].beforeExists =>
            /\ evPc[e] = "done"
            /\ evIn[e].domains = <<>>
            /\ ops[e] = <<>>
            /\ EventCalls(e) = {}
            /\ logged[e] = {}

\* A first theme is set while the registry holds two domains and there are
\* theme files and documents.
C19_Witness ==
    /\ evKind[1] = "themeChange"
    /\ ~evIn[1].beforeExists
    /\ evIn[1].themeFiles # <<>>
    /\ evIn[1].documents # <<>>
    /\ Cardinality(DOMAIN registry) = 2

\* C20: in the content write reaction the heat, its delay included, starts
\* only after every PURGE request for '/sitemap.xml' and beforePath[0] of the
\* event has resolved: while a PURGE request of the event is unresolved the
\* event has no heat and no GET request.
C20_DocWriteHeatAfterPurges ==
    \A e \in EventIds : evKind[e] = "docWrite" =>
        \A h \in DOMAIN ops[e] : ops[e][h].kind = "heat" =>
            \A o \in DOMAIN ops[e] : ops[e][o].kind = "purge" =>
                /\ o < h
                /\ ops[e][o].phase = "done"
                /\ ops[e][o].resolved = Len(ops[e][o].calls)

\* The heat is in its delay after the six PURGE requests of the two purges
\* have resolved.
C20_Witness ==
    /\ evKind[1] = "docWrite"
    /\ Len(ops[1]) = 3
    /\ ops[1][3].kind = "heat"
    /\ ops[1][3].phase = "sleeping"
    /\ ops[1][1].resolved = 3
    /\ ops[1][2].resolved = 3

\* The hosts the requests of an invocation go to.
CalledHosts(op) == {op.calls[i].hostname : i \in DOMAIN op.calls}

\* C18: a purge or heat fans out over one snapshot of the registry, a purge
\* reading it from its call on and a heat only after its delay: the requests
\* go to the domains registered at the snapshot, those registered during the
\* delay of a heat included, and no request is added for a host registered
\* later.
C18_SingleSnapshot ==
    [][\A e \in EventIds : \A o \in DOMAIN ops[e] :
          LET before == ops[e][o]
              after == ops'[e][o]
          IN  /\ Fanned(before) =>
                    after.snap = before.snap /\ after.calls = before.calls
              /\ ~Fanned(before) /\ Fanned(after) =>
                    /\ before.phase = "reading"
                    /\ Range(after.snap) = RegistryDomains
                    /\ CalledHosts(after) = RegistryDomains
              /\ before.kind = "purge" => before.phase # "sleeping"
              /\ before.kind = "heat" /\ before.phase = "reading" => before.slept]_vars

\* The purge of the event read an empty registry; a.io was registered before
\* the heat's snapshot and is being heated; two more domains were registered
\* after it and get no request.
C18_Witness ==
    /\ Len(ops[1]) = 2
    /\ ops[1][1].snap = <<>>
    /\ ops[1][2].kind = "heat"
    /\ ops[1][2].phase = "issued"
    /\ CalledHosts(ops[1][2]) = {HostA}
    /\ RegistryDomains = {HostA, HostFn, DefaultDomain}
    /\ regs[1].state = "idle"

\* Some other event has a heat that waits for its delay.
HeatPendingElsewhere(e) ==
    \E f \in EventIds \ {e} : \E o \in DOMAIN ops[f] :
        ops[f][o].kind = "heat" /\ ops[f][o].phase = "sleeping"

\* Every step the event has pending can be taken now.
EventCanGoOn(e) ==
    /\ evKind[e] = "none" =>
          /\ ENABLED OnFileChange(e, CssName)
          /\ ENABLED OnFileDelete(e, CssName)
    /\ evPc[e] # "crashed" =>
          \A o \in DOMAIN ops[e] :
              /\ ops[e][o].phase = "sleeping" => ENABLED HeatWake(e, o)
              /\ ops[e][o].phase = "reading" => ENABLED FanOut(e, o)
              /\ ops[e][o].phase = "issued" =>
                    \A statusCode \in StatusCodes : ENABLED CdnResponse(e, o, statusCode)

\* Every step the register call has pending can be taken now.
RegisterCanGoOn(r) ==
    /\ regs[r].state = "idle" => ENABLED RegisterRequestHost(r, HostA)
    /\ regs[r].state = "pending" =>
          /\ \A i \in DOMAIN regs[r].hosts \ regs[r].acked : ENABLED StoreApply(r, i)
          /\ regs[r].acked = DOMAIN regs[r].hosts => ENABLED RegisterResolve(r)

\* C17: a heat waiting for its delay blocks nothing: while it waits, a
\* register call and every step of another event (its start, the registry
\* read, the responses, its own timer) can be taken at once, and no step of
\* one event or of a register call changes anything of another event, so they
\* can run to completion before the waiting heat sends its first GET.
C17_PendingHeatBlocksNothing ==
    /\ [](\A e \in EventIds : HeatPendingElsewhere(e) =>
              EventCanGoOn(e) /\ RegisterCanGoOn(1))
    /\ [][\A e \in EventIds :
              <<ops[e], evPc[e], evKind[e]>>' # <<ops[e], evPc[e], evKind[e]>> =>
                  /\ regs' = regs
                  /\ \A f \in EventIds \ {e} :
                        <<ops[f], evPc[f], evKind[f]>>' = <<ops[f], evPc[f], evKind[f]>>]_vars

\* The heat of the first event is still in its delay and has sent nothing,
\* while a register call for a.io has completed and the second event has
\* purged on a.io and completed.
C17_Witness ==
    /\ evKind[1] = "fileChange"
    /\ Len(ops[1]) = 2
    /\ ops[1][1].snap = <<>>
    /\ ops[1][2].phase = "sleeping"
    /\ ops[1][2].calls = <<>>
    /\ regs[1].state = "idle"
    /\ evKind[2] = "fileDelete"
    /\ evPc[2] = "done"
    /\ ops[2][1].snap = <<HostA>>
    /\ ops[2][1].resolved = 1

====
